---- MODULE Spec2Model ----
(***************************************************************************)
(* ServiceAccountStorage (service_account_storage.py) over the remote      *)
(* object store it wraps, with the settings of STORAGE_CONFIG              *)
(* (storage_config.py).  Every SDK call a method issues is one atomic      *)
(* step; a method is the sequence of its steps, ended by the outcome its   *)
(* own try/except gives the caller.                                        *)
(***************************************************************************)
EXTENDS Integers, Sequences, FiniteSets, TLC

\* ------------------------------------------------------------------ bounds
MaxPathLen == 2
MaxAge == 366

\* ------------------------------------------------------- STORAGE_CONFIG
NearlineAgeDays == 30
ColdlineAgeDays == 90
DeleteAgeDays == 365

STORAGE_CONFIG ==
    [ location |-> "asia-south1",
      default_storage_class |-> "STANDARD",
      labels |-> [environment |-> "development", project |-> "dust-info"],
      lifecycle_rules |->
        << [ action |-> [type |-> "SetStorageClass", storageClass |-> "NEARLINE"],
             condition |-> [age |-> NearlineAgeDays,
                            matchesStorageClass |-> {"STANDARD"}] ],
           [ action |-> [type |-> "SetStorageClass", storageClass |-> "COLDLINE"],
             condition |-> [age |-> ColdlineAgeDays,
                            matchesStorageClass |-> {"NEARLINE"}] ],
           [ action |-> [type |-> "Delete"],
             condition |-> [age |-> DeleteAgeDays] ] >> ]

\* ------------------------------------------------------------ the domain
Callers == {1, 2}
MainCaller == CHOOSE c \in Callers : \A d \in Callers : c <= d
BucketNames == {"b1", "b2"}
Chars == {"a", "/"}

\* file paths: the non-empty character strings of at most MaxPathLen characters
FilePaths == UNION { [1..n -> Chars] : n \in 1..MaxPathLen }

\* faulty variant: the blob is named after the first segment of the path
RECURSIVE FirstSegment(_)
FirstSegment(p) ==
    IF p = <<>> THEN <<>>
    ELSE IF p[1] = "/" THEN <<>>
    ELSE <<p[1]>> \o FirstSegment(SubSeq(p, 2, Len(p)))

\* file_path.split('/')[-1]: what follows the last '/', the whole string when
\* it has none, the empty string when it ends in one
RECURSIVE LastSegment(_)
LastSegment(p) ==
    IF p = <<>> THEN <<>>
    ELSE IF p[Len(p)] = "/" THEN <<>>
    ELSE Append(LastSegment(SubSeq(p, 1, Len(p) - 1)), p[Len(p)])

\* object names: the store holds no object with the empty name
BlobNames == { LastSegment(p) : p \in FilePaths } \ {<<>>}
BlobArgs == BlobNames \cup {<<>>}

Ops == {"get_bucket", "create_bucket", "get_or_create_bucket", "upload_file",
        "download_file", "delete_file", "list_files", "get_signed_url"}

NoBucket == [absent |-> TRUE]
NoBlob == [absent |-> TRUE]
NoCall == [op |-> "none"]
NoOutcome == [kind |-> "none"]
None == [tag |-> "None"]
EmptyList == [tag |-> "list", names |-> {}]
Raised == [kind |-> "raise"]
Returned(v) == [kind |-> "return", value |-> v]

VARIABLES
    inst,        \* the instance: "new" (not constructed), "ready", "failed"
    client,      \* self.client: "none" or "authenticated"
    credLoads,   \* how often the credential file was opened
    buckets,     \* remote: bucket name -> settings, or NoBucket
    blobs,       \* remote: bucket name -> object name -> [cls, age], or NoBlob
    createCount, \* remote history: successful creations per bucket name
    createdBy,   \* remote history: the method invoked that created the bucket
    uploaded,    \* remote history: per bucket, the names upload_file returned
                 \* and delete_file has not deleted since
    pc,          \* per caller: the SDK call its invocation issues next
    call,        \* per caller: the method invoked and its arguments
    log,         \* per caller: the SDK calls of the invocation, with success
    outcome      \* per caller: what the invocation gave its caller

vars == <<inst, client, credLoads, buckets, blobs, createCount, createdBy,
          uploaded, pc, call, log, outcome>>
remote == <<buckets, blobs, createCount, createdBy, uploaded>>
instance == <<inst, client, credLoads>>

Init ==
    /\ inst = "new"
    /\ client = "none"
    /\ credLoads = 0
    /\ buckets = [b \in BucketNames |-> NoBucket]
    /\ blobs = [b \in BucketNames |-> [n \in BlobNames |-> NoBlob]]
    /\ createCount = [b \in BucketNames |-> 0]
    /\ createdBy = [b \in BucketNames |-> "none"]
    /\ uploaded = [b \in BucketNames |-> {}]
    /\ pc = [c \in Callers |-> "idle"]
    /\ call = [c \in Callers |-> NoCall]
    /\ log = [c \in Callers |-> <<>>]
    /\ outcome = [c \in Callers |-> NoOutcome]

\* faulty variant: __init__ logs the failure and does not raise
Construct_swallow ==
    /\ inst = "new"
    /\ credLoads' = credLoads + 1
    /\ inst' = "ready"
    /\ \E ok \in BOOLEAN :
         client' = IF ok THEN "authenticated" ELSE "none"
    /\ UNCHANGED <<remote, pc, call, log, outcome>>

\* __init__: open the credential file, build credentials and client; any
\* failure is logged and raised, and no instance comes to exist
Construct ==
    /\ inst = "new"
    /\ credLoads' = credLoads + 1
    /\ \E ok \in BOOLEAN :
         IF ok THEN inst' = "ready" /\ client' = "authenticated"
         ELSE inst' = "failed" /\ client' = "none"
    /\ UNCHANGED <<remote, pc, call, log, outcome>>

\* ------------------------------------------------- the try/except blocks
get_bucket_except == Raised
create_bucket_except == Raised
get_or_create_bucket_except == Raised
\* faulty variant: upload_file re-raises
upload_file_except_reraise == Raised
upload_file_except == Returned(None)
download_file_except == Raised
delete_file_except == Raised
list_files_except == Returned(EmptyList)
get_signed_url_except == Returned(None)

\* An exception leaves the method the caller invoked through that method's
\* except clause; the except clauses of the methods it called (get_bucket,
\* get_or_create_bucket) log and re-raise into it.
Except(op) ==
    CASE op = "get_bucket" -> get_bucket_except
      [] op = "create_bucket" -> create_bucket_except
      [] op = "get_or_create_bucket" -> get_or_create_bucket_except
      [] op = "upload_file" -> upload_file_except
      [] op = "download_file" -> download_file_except
      [] op = "delete_file" -> delete_file_except
      [] op = "list_files" -> list_files_except
      [] op = "get_signed_url" -> get_signed_url_except

\* ------------------------------------------------------------- helpers
Logged(c, name, ok) ==
    log' = [log EXCEPT ![c] = Append(@, [call |-> name, ok |-> ok])]
Finish(c, out) ==
    /\ pc' = [pc EXCEPT ![c] = "done"]
    /\ outcome' = [outcome EXCEPT ![c] = out]
Goto(c, label) ==
    /\ pc' = [pc EXCEPT ![c] = label]
    /\ UNCHANGED outcome

BucketHandle(b) == [tag |-> "bucket", bucket |-> b]
Exists(b) == buckets[b] # NoBucket
Stored(b, n) == n \in BlobNames /\ blobs[b][n] # NoBlob
Names(b) == { n \in BlobNames : blobs[b][n] # NoBlob }

\* what the server gives a bucket created with a location and nothing else
NewBucket(location) ==
    [ location |-> location, storage_class |-> "STANDARD",
      labels |-> <<>>, lifecycle_rules |-> <<>> ]

\* ------------------------------------------------------------ invocation
FirstCall(op) ==
    CASE op \in {"get_bucket", "download_file", "delete_file"} -> "get_bucket"
      [] op = "create_bucket" -> "create_bucket"
      [] op \in {"get_or_create_bucket", "upload_file"} -> "exists"
      [] op = "list_files" -> "list_blobs"
      [] op = "get_signed_url" -> "generate_signed_url"

ArgsOf(op) ==
    CASE op = "upload_file" -> FilePaths
      [] op \in {"download_file", "delete_file", "get_signed_url"} -> BlobArgs
      [] OTHER -> {<<>>}

LocationsOf(op) ==
    IF op = "create_bucket" THEN {"US", STORAGE_CONFIG.location} ELSE {"-"}

\* a caller invokes a method of a constructed instance
Invoke(c, op, b, arg, loc) ==
    /\ inst = "ready"
    /\ pc[c] = "idle"
    /\ call' = [call EXCEPT ![c] =
                  [op |-> op, bucket |-> b, arg |-> arg, location |-> loc]]
    /\ pc' = [pc EXCEPT ![c] = FirstCall(op)]
    /\ log' = [log EXCEPT ![c] = <<>>]
    /\ outcome' = [outcome EXCEPT ![c] = NoOutcome]
    /\ UNCHANGED <<instance, remote>>

\* the caller takes the outcome; the invocation is over
Return(c) ==
    /\ pc[c] = "done"
    /\ pc' = [pc EXCEPT ![c] = "idle"]
    /\ call' = [call EXCEPT ![c] = NoCall]
    /\ log' = [log EXCEPT ![c] = <<>>]
    /\ outcome' = [outcome EXCEPT ![c] = NoOutcome]
    /\ UNCHANGED <<instance, remote>>

\* --------------------------------------------------------------- methods
\* get_bucket: client.get_bucket(bucket_name); also the first call of
\* download_file and delete_file
AfterGetBucket(op) ==
    CASE op = "download_file" -> "download_to_filename"
      [] op = "delete_file" -> "delete"

\* faulty variant: get_bucket creates the bucket it does not find
get_bucket_autocreate(c) ==
    /\ pc[c] = "get_bucket"
    /\ LET b == call[c].bucket IN
       \E ok \in BOOLEAN :
         /\ ok => client = "authenticated"
         /\ Logged(c, "get_bucket", ok)
         /\ IF ok /\ ~Exists(b)
            THEN /\ buckets' = [buckets EXCEPT ![b] = NewBucket("US")]
                 /\ createCount' = [createCount EXCEPT ![b] = @ + 1]
                 /\ createdBy' = [createdBy EXCEPT ![b] = "get_bucket"]
            ELSE UNCHANGED <<buckets, createCount, createdBy>>
         /\ IF ~ok THEN Finish(c, Except(call[c].op))
            ELSE IF call[c].op = "get_bucket"
                 THEN Finish(c, Returned(BucketHandle(b)))
                 ELSE Goto(c, AfterGetBucket(call[c].op))
    /\ UNCHANGED <<instance, blobs, uploaded, call>>

get_bucket(c) ==
    /\ pc[c] = "get_bucket"
    /\ \E ok \in BOOLEAN :
         /\ ok => (client = "authenticated" /\ Exists(call[c].bucket))
         /\ Logged(c, "get_bucket", ok)
         /\ IF ~ok THEN Finish(c, Except(call[c].op))
            ELSE IF call[c].op = "get_bucket"
                 THEN Finish(c, Returned(BucketHandle(call[c].bucket)))
                 ELSE Goto(c, AfterGetBucket(call[c].op))
    /\ UNCHANGED <<instance, remote, call>>

\* create_bucket: client.create_bucket(bucket_name, location=location)
create_bucket(c) ==
    /\ pc[c] = "create_bucket"
    /\ LET b == call[c].bucket IN
       \E ok \in BOOLEAN :
         /\ ok => (client = "authenticated" /\ ~Exists(b))
         /\ Logged(c, "create_bucket", ok)
         /\ IF ok
            THEN /\ buckets' = [buckets EXCEPT ![b] = NewBucket(call[c].location)]
                 /\ createCount' = [createCount EXCEPT ![b] = @ + 1]
                 /\ createdBy' = [createdBy EXCEPT ![b] = "create_bucket"]
                 /\ Finish(c, Returned(BucketHandle(b)))
            ELSE /\ UNCHANGED <<buckets, createCount, createdBy>>
                 /\ Finish(c, Except(call[c].op))
    /\ UNCHANGED <<instance, blobs, uploaded, call>>

\* get_or_create_bucket; also the first calls of upload_file
AfterGetOrCreate(c) ==
    IF call[c].op = "upload_file"
    THEN Goto(c, "upload_from_filename")
    ELSE Finish(c, Returned(BucketHandle(call[c].bucket)))

\* faulty variant: an existing bucket is given the configured settings again
goc_exists_repatch(c) ==
    /\ pc[c] = "exists"
    /\ \E ok \in BOOLEAN :
         /\ ok => client = "authenticated"
         /\ Logged(c, "exists", ok)
         /\ IF ~ok THEN Finish(c, Except(call[c].op))
            ELSE IF Exists(call[c].bucket) THEN Goto(c, "patch_labels")
            ELSE Goto(c, "create")
    /\ UNCHANGED <<instance, remote, call>>

\* bucket.exists(): an existing bucket is returned as it is
goc_exists(c) ==
    /\ pc[c] = "exists"
    /\ \E ok \in BOOLEAN :
         /\ ok => client = "authenticated"
         /\ Logged(c, "exists", ok)
         /\ IF ~ok THEN Finish(c, Except(call[c].op))
            ELSE IF Exists(call[c].bucket) THEN AfterGetOrCreate(c)
            ELSE Goto(c, "create")
    /\ UNCHANGED <<instance, remote, call>>

\* faulty variant: a create refused because the bucket exists returns that bucket
goc_create_conflict_ok(c) ==
    /\ pc[c] = "create"
    /\ LET b == call[c].bucket IN
       \E ok \in BOOLEAN :
         /\ ok => (client = "authenticated" /\ ~Exists(b))
         /\ Logged(c, "create", ok)
         /\ IF ok
            THEN /\ buckets' = [buckets EXCEPT ![b] = NewBucket(STORAGE_CONFIG.location)]
                 /\ createCount' = [createCount EXCEPT ![b] = @ + 1]
                 /\ createdBy' = [createdBy EXCEPT ![b] = call[c].op]
                 /\ Goto(c, "patch_labels")
            ELSE /\ UNCHANGED <<buckets, createCount, createdBy>>
                 /\ IF Exists(b) THEN AfterGetOrCreate(c)
                    ELSE Finish(c, Except(call[c].op))
    /\ UNCHANGED <<instance, blobs, uploaded, call>>

\* bucket.create(location=self.config['location'])
goc_create(c) ==
    /\ pc[c] = "create"
    /\ LET b == call[c].bucket IN
       \E ok \in BOOLEAN :
         /\ ok => (client = "authenticated" /\ ~Exists(b))
         /\ Logged(c, "create", ok)
         /\ IF ok
            THEN /\ buckets' = [buckets EXCEPT ![b] = NewBucket(STORAGE_CONFIG.location)]
                 /\ createCount' = [createCount EXCEPT ![b] = @ + 1]
                 /\ createdBy' = [createdBy EXCEPT ![b] = call[c].op]
                 /\ Goto(c, "patch_labels")
            ELSE /\ UNCHANGED <<buckets, createCount, createdBy>>
                 /\ Finish(c, Except(call[c].op))
    /\ UNCHANGED <<instance, blobs, uploaded, call>>

\* faulty variant: a failed first patch is passed over and the second patch issued
goc_patch_labels_continue(c) ==
    /\ pc[c] = "patch_labels"
    /\ LET b == call[c].bucket IN
       \E ok \in BOOLEAN :
         /\ ok => (client = "authenticated" /\ Exists(b))
         /\ Logged(c, "patch", ok)
         /\ IF ok
            THEN buckets' = [buckets EXCEPT
                      ![b].storage_class = STORAGE_CONFIG.default_storage_class,
                      ![b].labels = STORAGE_CONFIG.labels]
            ELSE UNCHANGED buckets
         /\ Goto(c, "patch_lifecycle")
    /\ UNCHANGED <<instance, blobs, createCount, createdBy, uploaded, call>>

\* storage_class and labels are set on the bucket object; bucket.patch()
goc_patch_labels(c) ==
    /\ pc[c] = "patch_labels"
    /\ LET b == call[c].bucket IN
       \E ok \in BOOLEAN :
         /\ ok => (client = "authenticated" /\ Exists(b))
         /\ Logged(c, "patch", ok)
         /\ IF ok
            THEN /\ buckets' = [buckets EXCEPT
                      ![b].storage_class = STORAGE_CONFIG.default_storage_class,
                      ![b].labels = STORAGE_CONFIG.labels]
                 /\ Goto(c, "patch_lifecycle")
            ELSE /\ UNCHANGED buckets
                 /\ Finish(c, Except(call[c].op))
    /\ UNCHANGED <<instance, blobs, createCount, createdBy, uploaded, call>>

\* lifecycle_rules is set on the bucket object; bucket.patch()
goc_patch_lifecycle(c) ==
    /\ pc[c] = "patch_lifecycle"
    /\ LET b == call[c].bucket IN
       \E ok \in BOOLEAN :
         /\ ok => (client = "authenticated" /\ Exists(b))
         /\ Logged(c, "patch", ok)
         /\ IF ok
            THEN /\ buckets' = [buckets EXCEPT
                      ![b].lifecycle_rules = STORAGE_CONFIG.lifecycle_rules]
                 /\ AfterGetOrCreate(c)
            ELSE /\ UNCHANGED buckets
                 /\ Finish(c, Except(call[c].op))
    /\ UNCHANGED <<instance, blobs, createCount, createdBy, uploaded, call>>

get_or_create_bucket(c) ==
    \/ goc_exists(c)
    \/ goc_create(c)
    \/ goc_patch_labels(c)
    \/ goc_patch_lifecycle(c)

\* upload_file, after its get_or_create_bucket returned:
\* bucket.blob(file_path.split('/')[-1]).upload_from_filename(file_path).
\* A path whose last segment is empty names no readable file.
BlobValue(n) == [tag |-> "name", blob |-> n]

upload_file(c) ==
    /\ pc[c] = "upload_from_filename"
    /\ LET b == call[c].bucket
           n == LastSegment(call[c].arg) IN
       \E ok \in BOOLEAN :
         /\ ok => (client = "authenticated" /\ Exists(b) /\ n # <<>>)
         /\ Logged(c, "upload_from_filename", ok)
         /\ IF ok
            THEN /\ blobs' = [blobs EXCEPT ![b][n] =
                               [cls |-> buckets[b].storage_class, age |-> 0]]
                 /\ uploaded' = [uploaded EXCEPT ![b] = @ \cup {n}]
                 /\ Finish(c, Returned(BlobValue(n)))
            ELSE /\ UNCHANGED <<blobs, uploaded>>
                 /\ Finish(c, Except(call[c].op))
    /\ UNCHANGED <<instance, buckets, createCount, createdBy, call>>

\* download_file, after its get_bucket returned: blob.download_to_filename
download_file(c) ==
    /\ pc[c] = "download_to_filename"
    /\ \E ok \in BOOLEAN :
         /\ ok => (client = "authenticated" /\ Stored(call[c].bucket, call[c].arg))
         /\ Logged(c, "download_to_filename", ok)
         /\ IF ok THEN Finish(c, Returned(None))
            ELSE Finish(c, Except(call[c].op))
    /\ UNCHANGED <<instance, remote, call>>

\* delete_file, after its get_bucket returned: blob.delete()
delete_file(c) ==
    /\ pc[c] = "delete"
    /\ LET b == call[c].bucket
           n == call[c].arg IN
       \E ok \in BOOLEAN :
         /\ ok => (client = "authenticated" /\ Stored(b, n))
         /\ Logged(c, "delete", ok)
         /\ IF ok
            THEN /\ blobs' = [blobs EXCEPT ![b][n] = NoBlob]
                 /\ uploaded' = [uploaded EXCEPT ![b] = @ \ {n}]
                 /\ Finish(c, Returned(None))
            ELSE /\ UNCHANGED <<blobs, uploaded>>
                 /\ Finish(c, Except(call[c].op))
    /\ UNCHANGED <<instance, buckets, createCount, createdBy, call>>

\* list_files: [blob.name for blob in bucket.list_blobs()]
ListValue(names) == [tag |-> "list", names |-> names]

\* faulty variant: list_files asks whether the bucket exists before it lists
list_files_checked(c) ==
    /\ pc[c] = "list_blobs"
    /\ \E ok \in BOOLEAN :
         /\ ok => (client = "authenticated" /\ Exists(call[c].bucket))
         /\ log' = [log EXCEPT ![c] = @ \o << [call |-> "exists", ok |-> TRUE],
                                             [call |-> "list_blobs", ok |-> ok] >>]
         /\ IF ok THEN Finish(c, Returned(ListValue(Names(call[c].bucket))))
            ELSE Finish(c, Except(call[c].op))
    /\ UNCHANGED <<instance, remote, call>>

list_files(c) ==
    /\ pc[c] = "list_blobs"
    /\ \E ok \in BOOLEAN :
         /\ ok => (client = "authenticated" /\ Exists(call[c].bucket))
         /\ Logged(c, "list_blobs", ok)
         /\ IF ok THEN Finish(c, Returned(ListValue(Names(call[c].bucket))))
            ELSE Finish(c, Except(call[c].op))
    /\ UNCHANGED <<instance, remote, call>>

\* get_signed_url: blob.generate_signed_url(version="v4",
\* expiration=timedelta(minutes=15), method="GET"); signing asks the server
\* nothing
UrlValue(b, n) ==
    [tag |-> "url", bucket |-> b, blob |-> n, minutes |-> 15, method |-> "GET"]

get_signed_url(c) ==
    /\ pc[c] = "generate_signed_url"
    /\ \E ok \in BOOLEAN :
         /\ ok => client = "authenticated"
         /\ Logged(c, "generate_signed_url", ok)
         /\ IF ok THEN Finish(c, Returned(UrlValue(call[c].bucket, call[c].arg)))
            ELSE Finish(c, Except(call[c].op))
    /\ UNCHANGED <<instance, remote, call>>

\* ------------------------------------------------------- specifications
Step(c) ==
    \/ \E op \in Ops, b \in BucketNames :
         \E arg \in ArgsOf(op), loc \in LocationsOf(op) : Invoke(c, op, b, arg, loc)
    \/ get_bucket(c)
    \/ create_bucket(c)
    \/ get_or_create_bucket(c)
    \/ upload_file(c)
    \/ download_file(c)
    \/ delete_file(c)
    \/ list_files(c)
    \/ get_signed_url(c)
    \/ Return(c)

\* one caller at a time, every method, every bucket
Next ==
    \/ Construct
    \/ Step(MainCaller)

Spec == Init /\ [][Next]_vars

\* two callers of get_or_create_bucket, their SDK calls interleaved
NextConcurrent ==
    \/ Construct
    \/ \E c \in Callers :
         \/ \E b \in BucketNames : Invoke(c, "get_or_create_bucket", b, <<>>, "-")
         \/ get_or_create_bucket(c)
         \/ Return(c)

SpecConcurrent == Init /\ [][NextConcurrent]_vars

\* ------------------------------------------- the store's lifecycle rules
\* The store applies a bucket's lifecycle_rules to each of its objects: a rule
\* is satisfied by an object that has its age and, where the rule names
\* classes, one of its classes.  Of the satisfied rules Delete goes first, then
\* the SetStorageClass to the coldest class.  The age is counted from the
\* object's creation and a change of class leaves it.
Coldness(cls) ==
    CASE cls = "STANDARD" -> 0
      [] cls = "NEARLINE" -> 1
      [] cls = "COLDLINE" -> 2
      [] cls = "ARCHIVE" -> 3

Satisfied(rule, obj) ==
    /\ obj.age >= rule.condition.age
    /\ "matchesStorageClass" \in DOMAIN rule.condition
         => obj.cls \in rule.condition.matchesStorageClass

SatisfiedRules(b, n) ==
    LET rules == buckets[b].lifecycle_rules IN
    { i \in DOMAIN rules : Satisfied(rules[i], blobs[b][n]) }

lifecycle_delete(b, n) ==
    /\ Exists(b) /\ Stored(b, n)
    /\ \E i \in SatisfiedRules(b, n) :
         buckets[b].lifecycle_rules[i].action.type = "Delete"
    /\ blobs' = [blobs EXCEPT ![b][n] = NoBlob]
    /\ UNCHANGED <<instance, buckets, createCount, createdBy, uploaded,
                   pc, call, log, outcome>>

lifecycle_set_storage_class(b, n) ==
    /\ Exists(b) /\ Stored(b, n)
    /\ LET rules == buckets[b].lifecycle_rules
           sat == SatisfiedRules(b, n) IN
       /\ \A i \in sat : rules[i].action.type # "Delete"
       /\ \E i \in sat :
            /\ \A j \in sat : Coldness(rules[j].action.storageClass)
                                <= Coldness(rules[i].action.storageClass)
            /\ blobs' = [blobs EXCEPT ![b][n].cls = rules[i].action.storageClass]
    /\ UNCHANGED <<instance, buckets, createCount, createdBy, uploaded,
                   pc, call, log, outcome>>

\* a day passes: every stored object is a day older
Tick ==
    /\ \E b \in BucketNames : Names(b) # {}
    /\ \A b \in BucketNames : \A n \in Names(b) : blobs[b][n].age < MaxAge
    /\ blobs' = [b \in BucketNames |-> [n \in BlobNames |->
                   IF blobs[b][n] = NoBlob THEN NoBlob
                   ELSE [blobs[b][n] EXCEPT !.age = @ + 1]]]
    /\ UNCHANGED <<instance, buckets, createCount, createdBy, uploaded,
                   pc, call, log, outcome>>

\* one caller that creates the bucket "b1" and uploads the file "a" to it,
\* the days passing and the store applying the bucket's rules
NextLifecycle ==
    \/ Construct
    \/ Invoke(MainCaller, "get_or_create_bucket", "b1", <<>>, "-")
    \/ Invoke(MainCaller, "upload_file", "b1", <<"a">>, "-")
    \/ get_or_create_bucket(MainCaller)
    \/ upload_file(MainCaller)
    \/ Return(MainCaller)
    \/ Tick
    \/ \E b \in BucketNames, n \in BlobNames :
         \/ lifecycle_delete(b, n)
         \/ lifecycle_set_storage_class(b, n)

\* the store does act on an object whose rule is satisfied
LifecycleFairness ==
    \A b \in BucketNames, n \in BlobNames :
        /\ WF_vars(lifecycle_delete(b, n))
        /\ WF_vars(lifecycle_set_storage_class(b, n))

SpecLifecycle == Init /\ [][NextLifecycle]_vars /\ LifecycleFairness

\* ================================================================ claims
AllOk(l) == \A i \in DOMAIN l : l[i].ok
CallNames(l) == [i \in DOMAIN l |-> l[i].call]
Acts(c) == pc'[c] # pc[c]
Configured(b) ==
    /\ buckets[b].location = STORAGE_CONFIG.location
    /\ buckets[b].storage_class = STORAGE_CONFIG.default_storage_class
    /\ buckets[b].labels = STORAGE_CONFIG.labels
    /\ buckets[b].lifecycle_rules = STORAGE_CONFIG.lifecycle_rules

\* C1: when an invocation is over, get_bucket, create_bucket,
\* get_or_create_bucket, download_file and delete_file have raised exactly when
\* one of their SDK calls failed; upload_file, list_files and get_signed_url
\* have returned, and after a failed SDK call (whichever one) they have
\* returned their default: None, the empty list, None.
C1_FailureHandling ==
    \A c \in Callers : pc[c] = "done" =>
        LET op == call[c].op
            failed == ~AllOk(log[c]) IN
        /\ op \in {"get_bucket", "create_bucket", "get_or_create_bucket",
                   "download_file", "delete_file"}
             => (failed <=> outcome[c] = [kind |-> "raise"])
        /\ op \in {"upload_file", "list_files", "get_signed_url"}
             => /\ outcome[c].kind = "return"
                /\ failed => outcome[c].value =
                     (IF op = "list_files" THEN [tag |-> "list", names |-> {}]
                      ELSE [tag |-> "None"])

\* C1 witness: upload_file has returned None after the create inside its
\* get_or_create_bucket failed
C1_Witness ==
    \E c \in Callers :
        /\ pc[c] = "done" /\ call[c].op = "upload_file"
        /\ CallNames(log[c]) = <<"exists", "create">>
        /\ log[c][1].ok /\ ~log[c][2].ok
        /\ outcome[c] = [kind |-> "return", value |-> [tag |-> "None"]]

\* C2: a get_or_create_bucket that has returned leaves the bucket existing,
\* and a get_or_create_bucket that finds the bucket existing issues the exists
\* call alone (no create, no patch), changes nothing of the remote store and
\* returns that bucket: a second successful call changes nothing the first
\* left.
C2_Idempotent ==
    /\ [](\A c \in Callers :
            (pc[c] = "done" /\ call[c].op = "get_or_create_bucket"
               /\ outcome[c].kind = "return") => Exists(call[c].bucket))
    /\ [][\A c \in Callers :
            (call[c].op = "get_or_create_bucket" /\ pc[c] = "exists"
               /\ Exists(call[c].bucket) /\ Acts(c))
            => /\ UNCHANGED <<buckets, blobs>>
               /\ pc'[c] = "done"
               /\ CallNames(log'[c]) = <<"exists">>
               /\ log'[c][1].ok =>
                    outcome'[c] = Returned(BucketHandle(call[c].bucket))]_vars

\* C2 witness: a get_or_create_bucket has returned a bucket that an earlier
\* get_or_create_bucket created, with the exists call alone
C2_Witness ==
    \E c \in Callers :
        /\ pc[c] = "done" /\ call[c].op = "get_or_create_bucket"
        /\ createdBy[call[c].bucket] = "get_or_create_bucket"
        /\ Configured(call[c].bucket)
        /\ CallNames(log[c]) = <<"exists">> /\ log[c][1].ok
        /\ outcome[c] = Returned(BucketHandle(call[c].bucket))

\* C3: whenever a get_or_create_bucket returns a bucket that get_or_create_bucket
\* calls created, the bucket has the location, default storage class, labels and
\* lifecycle rules of STORAGE_CONFIG.
C3_ReturnedBucketConfigured ==
    \A c \in Callers :
        (/\ pc[c] = "done" /\ call[c].op = "get_or_create_bucket"
         /\ outcome[c].kind = "return"
         /\ createdBy[call[c].bucket] = "get_or_create_bucket")
        => Configured(call[c].bucket)

\* v is what follows the last '/' of p (all of p when p has none)
IsLastSegmentOf(v, p) ==
    /\ \A i \in DOMAIN v : v[i] # "/"
    /\ \E k \in 0..Len(p) :
         /\ k = 0 \/ p[k] = "/"
         /\ v = SubSeq(p, k + 1, Len(p))

\* C4 as stated: when upload_file has returned a value other than None, the
\* value is the last '/'-separated segment of file_path and the bucket exists;
\* a list_files on a bucket returns the names upload_file returned for it and
\* delete_file has not deleted since; a delete_file that returned has removed
\* its name from them.
C4_UploadListDelete ==
    \A c \in Callers : pc[c] = "done" =>
        LET b == call[c].bucket IN
        /\ (call[c].op = "upload_file" /\ outcome[c].value # [tag |-> "None"])
             => /\ outcome[c].value.tag = "name"
                /\ IsLastSegmentOf(outcome[c].value.blob, call[c].arg)
                /\ Exists(b)
                /\ outcome[c].value.blob \in uploaded[b]
        /\ call[c].op = "list_files"
             => outcome[c].value = [tag |-> "list", names |-> uploaded[b]]
        /\ (call[c].op = "delete_file" /\ outcome[c].kind = "return")
             => call[c].arg \notin uploaded[b]

\* C4 amended: as C4_UploadListDelete, but list_files returns those names only
\* when its list_blobs call succeeded; when the call failed it returns the
\* empty list, whatever the bucket holds.
C4_UploadListDeleteWhenListed ==
    \A c \in Callers : pc[c] = "done" =>
        LET b == call[c].bucket IN
        /\ (call[c].op = "upload_file" /\ outcome[c].value # [tag |-> "None"])
             => /\ outcome[c].value.tag = "name"
                /\ IsLastSegmentOf(outcome[c].value.blob, call[c].arg)
                /\ Exists(b)
                /\ outcome[c].value.blob \in uploaded[b]
        /\ call[c].op = "list_files"
             => outcome[c].value =
                  [tag |-> "list",
                   names |-> IF AllOk(log[c]) THEN uploaded[b] ELSE {}]
        /\ (call[c].op = "delete_file" /\ outcome[c].kind = "return")
             => call[c].arg \notin uploaded[b]

\* C4 witness: a list_files has returned the one name uploaded to a bucket
\* that upload_file created
C4_Witness ==
    \E c \in Callers :
        /\ pc[c] = "done" /\ call[c].op = "list_files" /\ AllOk(log[c])
        /\ outcome[c].value.names = {<<"a">>}
        /\ uploaded[call[c].bucket] = {<<"a">>}
        /\ createdBy[call[c].bucket] = "upload_file"

\* C5 as stated: every invocation forwards exactly one call to the client.
C5_OneCallPerInvocation ==
    \A c \in Callers : pc[c] = "done" => Len(log[c]) = 1

Prefixes(s) == { SubSeq(s, 1, k) : k \in 1..Len(s) }

\* C5 amended: get_bucket, create_bucket, list_files and get_signed_url forward
\* exactly one SDK call; download_file and delete_file forward get_bucket and,
\* when it succeeded, one blob call; get_or_create_bucket forwards exists alone
\* when the bucket exists and otherwise exists, create, patch, patch, up to the
\* first that fails; upload_file forwards the calls of get_or_create_bucket and,
\* when they all succeeded, one upload.
C5_CallsPerMethod ==
    \A c \in Callers : pc[c] = "done" =>
        LET op == call[c].op
            names == CallNames(log[c])
            whole == AllOk(log[c])
            creating == <<"exists", "create", "patch", "patch">> IN
        /\ op = "get_bucket" => names = <<"get_bucket">>
        /\ op = "create_bucket" => names = <<"create_bucket">>
        /\ op = "list_files" => names = <<"list_blobs">>
        /\ op = "get_signed_url" => names = <<"generate_signed_url">>
        /\ op = "download_file" =>
             \/ names = <<"get_bucket">> /\ ~whole
             \/ names = <<"get_bucket", "download_to_filename">>
        /\ op = "delete_file" =>
             \/ names = <<"get_bucket">> /\ ~whole
             \/ names = <<"get_bucket", "delete">>
        /\ op = "get_or_create_bucket" =>
             \/ names = <<"exists">>
             \/ names \in Prefixes(creating) /\ (whole => names = creating)
        /\ op = "upload_file" =>
             \/ names = <<"exists">> /\ ~whole
             \/ names \in Prefixes(creating) /\ ~whole
             \/ names = <<"exists", "upload_from_filename">>
             \/ names = creating \o <<"upload_from_filename">>

\* C5 witness: an upload_file to an absent bucket has forwarded five calls
C5_Witness ==
    \E c \in Callers :
        /\ pc[c] = "done" /\ call[c].op = "upload_file"
        /\ Len(log[c]) = 5 /\ AllOk(log[c])
        /\ outcome[c].value = [tag |-> "name", blob |-> <<"a">>]

\* C6: an invocation runs only on an instance whose constructor succeeded, with
\* the authenticated client and the credential file read once; on the failure
\* of the load no instance exists, no method runs and the store is untouched;
\* once the client is built no step reads the credentials again or replaces the
\* client.
C6_AuthenticateOnce ==
    /\ [](\A c \in Callers : pc[c] # "idle" =>
            inst = "ready" /\ client = "authenticated" /\ credLoads = 1)
    /\ [](inst = "new" => credLoads = 0 /\ client = "none")
    /\ [](inst = "failed" =>
            /\ client = "none" /\ credLoads = 1
            /\ \A c \in Callers : pc[c] = "idle"
            /\ \A b \in BucketNames : ~Exists(b))
    /\ [][inst # "new" => UNCHANGED <<inst, client, credLoads>>]_vars

\* C6 witness: a method has run its SDK call on the instance, the credentials
\* read once
C6_Witness ==
    /\ inst = "ready" /\ client = "authenticated" /\ credLoads = 1
    /\ \E c \in Callers : pc[c] = "done" /\ log[c] # <<>> /\ AllOk(log[c])

\* C7: in the calls of an invocation only the last can have failed, and an
\* invocation with a failed call is over; what its calls did before the failure
\* stays done: the bucket its create created exists, the settings its first
\* patch set are set.
C7_NoRetryNoUndo ==
    \A c \in Callers :
        LET l == log[c]
            b == call[c].bucket IN
        /\ \A i \in DOMAIN l : i < Len(l) => l[i].ok
        /\ ~AllOk(l) => pc[c] = "done"
        /\ \A i \in DOMAIN l : (l[i].call = "create" /\ l[i].ok) =>
             /\ Exists(b)
             /\ buckets[b].location = STORAGE_CONFIG.location
        /\ (Len(l) >= 3 /\ l[3].call = "patch" /\ l[3].ok) =>
             buckets[b].labels = STORAGE_CONFIG.labels

\* C7 witness: a get_or_create_bucket is over after its first patch failed;
\* the bucket its create created is there, without labels
C7_Witness ==
    \E c \in Callers :
        /\ pc[c] = "done" /\ call[c].op = "get_or_create_bucket"
        /\ CallNames(log[c]) = <<"exists", "create", "patch">>
        /\ log[c][2].ok /\ ~log[c][3].ok
        /\ Exists(call[c].bucket)
        /\ buckets[call[c].bucket].labels = <<>>
        /\ outcome[c] = [kind |-> "raise"]

\* C8: in a bucket that get_or_create_bucket created (called directly or by
\* upload_file) an object changes class only from STANDARD to NEARLINE, at an
\* age of 30 days or more, or from NEARLINE to COLDLINE, at 90 days or more, and
\* an object that has reached the age of 365 days is eventually deleted.
C8_LifecycleForward ==
    /\ [][\A b \in BucketNames, n \in BlobNames :
            (/\ createdBy[b] \in {"get_or_create_bucket", "upload_file"}
             /\ blobs[b][n] # NoBlob /\ blobs'[b][n] # NoBlob
             /\ blobs'[b][n].age = blobs[b][n].age
             /\ blobs'[b][n].cls # blobs[b][n].cls)
            => \/ /\ blobs[b][n].cls = "STANDARD" /\ blobs'[b][n].cls = "NEARLINE"
                  /\ blobs[b][n].age >= 30
               \/ /\ blobs[b][n].cls = "NEARLINE" /\ blobs'[b][n].cls = "COLDLINE"
                  /\ blobs[b][n].age >= 90]_vars
    /\ \A b \in BucketNames, n \in BlobNames :
         (/\ createdBy[b] \in {"get_or_create_bucket", "upload_file"}
          /\ blobs[b][n] # NoBlob /\ blobs[b][n].age >= 365)
         ~> ~(blobs[b][n] # NoBlob /\ blobs[b][n].age >= 365)

\* C9: of two callers of get_or_create_bucket no bucket name is created more
\* than once, and a caller that issues its create when the bucket exists (the
\* other caller's create succeeded after this caller's exists) raises, the
\* store unchanged, and does not return the bucket.
C9_ConcurrentCreate ==
    /\ [](\A b \in BucketNames : createCount[b] <= 1)
    /\ [][\A c \in Callers :
            (pc[c] = "create" /\ Exists(call[c].bucket) /\ Acts(c))
            => /\ pc'[c] = "done"
               /\ outcome'[c] = [kind |-> "raise"]
               /\ UNCHANGED <<buckets, createCount>>]_vars

\* C9 witness: one caller's create succeeded, and the other caller, whose
\* exists had found no bucket, has raised on its create
C9_Witness ==
    \E c, d \in Callers :
        /\ c # d /\ pc[c] = "done" /\ pc[d] = "patch_labels"
        /\ call[c].bucket = call[d].bucket
        /\ CallNames(log[d]) = <<"exists", "create">> /\ AllOk(log[d])
        /\ outcome[c] = [kind |-> "raise"]
        /\ CallNames(log[c]) = <<"exists", "create">>
        /\ log[c][1].ok /\ ~log[c][2].ok
        /\ createCount[call[c].bucket] = 1

\* C10: a step of get_bucket, download_file, list_files or get_signed_url
\* changes no bucket and no object; a step of delete_file changes no bucket and
\* at most the object it names in the bucket it names; download_file and
\* delete_file on an absent bucket raise and leave it absent; a bucket comes to
\* exist only in a step of create_bucket, get_or_create_bucket or upload_file.
C10_Frame ==
    [][/\ \A c \in Callers : Acts(c) =>
            LET op == IF call[c].op = "none" THEN call'[c].op ELSE call[c].op
                b == call[c].bucket IN
            /\ op \in {"get_bucket", "download_file", "list_files", "get_signed_url"}
                 => UNCHANGED <<buckets, blobs>>
            /\ op = "delete_file"
                 => /\ UNCHANGED buckets
                    /\ \A b2 \in BucketNames, n2 \in BlobNames :
                         blobs'[b2][n2] # blobs[b2][n2]
                           => b2 = b /\ n2 = call[c].arg
            /\ (op \in {"download_file", "delete_file"} /\ pc[c] = "get_bucket"
                  /\ buckets[b] = NoBucket)
                 => /\ pc'[c] = "done" /\ outcome'[c] = [kind |-> "raise"]
                    /\ buckets'[b] = NoBucket
       /\ (\E b \in BucketNames : buckets[b] = NoBucket /\ buckets'[b] # NoBucket)
            => \E c \in Callers :
                 /\ Acts(c)
                 /\ call[c].op \in {"create_bucket", "get_or_create_bucket",
                                    "upload_file"}]_vars

\* C10 witness: a delete_file on an absent bucket has raised and the bucket is
\* absent, the objects of the other bucket in place
C10_Witness ==
    \E c \in Callers :
        /\ pc[c] = "done" /\ call[c].op = "delete_file"
        /\ CallNames(log[c]) = <<"get_bucket">> /\ ~log[c][1].ok
        /\ buckets[call[c].bucket] = NoBucket
        /\ outcome[c] = [kind |-> "raise"]
        /\ \E b \in BucketNames : uploaded[b] # {} /\ Names(b) = uploaded[b]

====
